---- MODULE Spec2Model ----
(***************************************************************************)
(* Model of the RAG microservice: SupabaseRAG (src/rag_supabase.py) and    *)
(* the three FastAPI handlers that drive it (src/backend.py).              *)
(*                                                                         *)
(* The handlers run on one asyncio event loop.  upload_document and        *)
(* clear_database contain no await, so each runs to completion without     *)
(* any other handler running in between; query_stream is suspended at      *)
(* every yield and while it waits for the next generation fragment, so     *)
(* other handlers may run there.  The embedding provider, the language     *)
(* model and the store are external: each call either answers or raises,   *)
(* chosen by the environment.                                              *)
(***************************************************************************)
EXTENDS Integers, Sequences, FiniteSets, TLC

(* ------------------------------ bounds -------------------------------- *)
MaxOps == 3
MaxChunks == 2
MaxFrags == 2

(* -------------------------- program constants ------------------------- *)
StreamK == 3
MatchThreshold == 0

(* ------------------------------ inputs -------------------------------- *)
PdfExt == <<".", "p", "d", "f">>
TxtExt == <<".", "t", "x", "t">>

Filenames ==
    { <<"a">> \o TxtExt,
      <<"b">> \o PdfExt,
      <<"c", ".", "d", "o", "c">>,
      <<"d", ".", "P", "D", "F">>,
      <<"p", "d", "f">> }

Questions == {"q1", "q2"}

NoPage == {}

(* ---------------------------- pure helpers ---------------------------- *)
(* str.endswith *)
EndsWith(s, suf) ==
    /\ Len(s) >= Len(suf)
    /\ \A i \in 1..Len(suf) : s[Len(s) - Len(suf) + i] = suf[i]

(* What loader.load() followed by split_documents() produces for a file  *)
(* of n chunks: a text file gives chunks without a page key, a PDF gives  *)
(* chunks that carry the page they came from.                             *)
ChunkAt(file_path, j) ==
    IF EndsWith(file_path, TxtExt)
    THEN [page_content |-> "t1", metadata |-> NoPage]
    ELSE [page_content |-> IF j % 2 = 1 THEN "t2" ELSE "t1",
          metadata     |-> {<<"page", j - 1>>}]

ChunkSeqs(file_path) ==
    { [j \in 1..n |-> ChunkAt(file_path, j)] : n \in 0..MaxChunks }

(* dict.get(key, default) on a dict held as a set of <<key, value>> pairs *)
DictGet(d, key, default) ==
    IF \E kv \in d : kv[1] = key
    THEN (CHOOSE kv \in d : kv[1] = key)[2]
    ELSE default

(* load_and_process_document with the final else treated as a text file. *)
LoaderFor_default(file_path) ==
    IF EndsWith(file_path, PdfExt) THEN "PyPDFLoader"
    ELSE "TextLoader"

(* The branch of load_and_process_document that picks a loader. *)
LoaderFor(file_path) ==
    IF EndsWith(file_path, PdfExt) THEN "PyPDFLoader"
    ELSE IF EndsWith(file_path, TxtExt) THEN "TextLoader"
    ELSE "ValueError"

(* json.dumps of the metadata dict, and json.loads of the stored text. *)
json_dumps(m) == <<"{", m.source, m.chunk_index, m.page, "}">>

json_loads(s) == [source |-> s[2], chunk_index |-> s[3], page |-> s[4]]

(* The embedding provider's answer for a text (a one-dimensional vector). *)
embed_query(text) ==
    CASE text = "t1" -> 0
      [] text = "t2" -> 1
      [] text = "q1" -> 0
      [] text = "q2" -> 2

(* _store_chunks numbering the chunks from 1. *)
PrepareRecord_oneBased(chunk, i, source_file, embedding) ==
    [ content   |-> chunk.page_content,
      metadata  |-> json_dumps([ source      |-> source_file,
                                 chunk_index |-> i + 1,
                                 page        |-> DictGet(chunk.metadata, "page", 0) ]),
      embedding |-> embedding ]

(* One element of insert_data, built in the loop of _store_chunks. *)
PrepareRecord(chunk, i, source_file, embedding) ==
    [ content   |-> chunk.page_content,
      metadata  |-> json_dumps([ source      |-> source_file,
                                 chunk_index |-> i,
                                 page        |-> DictGet(chunk.metadata, "page", 0) ]),
      embedding |-> embedding ]

(* The store's batch insert: every row gets the next id of the sequence. *)
StoreInsert(st, batch, firstId) ==
    st \cup { [ id        |-> firstId + j - 1,
                content   |-> batch[j].content,
                metadata  |-> batch[j].metadata,
                embedding |-> batch[j].embedding ] : j \in 1..Len(batch) }

(* _store_chunks logging a failed insert without the re-raise. *)
InsertOutcome_swallow(ok) == "stored"

(* What _store_chunks does with the outcome of the insert call. *)
InsertOutcome(ok) == IF ok THEN "stored" ELSE "raise"

(* The status upload_document answers with. *)
UploadStatus(exc) ==
    IF exc = "none" THEN 200
    ELSE IF exc = "ValueError" THEN 400
    ELSE 500


(* The store's match_documents procedure: the rows whose similarity to    *)
(* the query vector reaches the threshold, most similar first, at most    *)
(* match_count of them, each with a similarity field (in thousandths).    *)
Similarity(a, b) == 1000 - 333 * (IF a >= b THEN a - b ELSE b - a)

Ranks(r, o, qe) ==
    \/ Similarity(r.embedding, qe) > Similarity(o.embedding, qe)
    \/ /\ Similarity(r.embedding, qe) = Similarity(o.embedding, qe)
       /\ r.id <= o.id

RECURSIVE TopRows(_, _, _)
TopRows(S, qe, n) ==
    IF n = 0 \/ S = {} THEN <<>>
    ELSE LET best == CHOOSE r \in S : \A o \in S : Ranks(r, o, qe)
         IN  << [ id         |-> best.id,
                  content    |-> best.content,
                  metadata   |-> best.metadata,
                  similarity |-> Similarity(best.embedding, qe) ] >>
             \o TopRows(S \ {best}, qe, n - 1)

match_documents(st, query_embedding, match_threshold, match_count) ==
    TopRows({ r \in st : Similarity(r.embedding, query_embedding) >= match_threshold },
            query_embedding, match_count)

(* The per-row log line formats the similarity with .4f, which raises     *)
(* when the row has no numeric similarity.                                *)
RowLogOk(doc) == "similarity" \in DOMAIN doc

(* retrieve_relevant_chunks with an except branch that re-raises. *)
RetrieveExcept_reraise == [docs |-> <<>>, raised |-> TRUE]

(* The except branch of retrieve_relevant_chunks. *)
RetrieveExcept == [docs |-> <<>>, raised |-> FALSE]

(* retrieve_relevant_chunks: env says which of the three remote calls     *)
(* answer; a call after one that raised is never made.                    *)
retrieve_relevant_chunks(question, k, env, st) ==
    IF ~env.embedOk THEN RetrieveExcept
    ELSE IF ~env.countOk THEN RetrieveExcept
    ELSE IF ~env.searchOk THEN RetrieveExcept
    ELSE LET data == match_documents(st, embed_query(question), MatchThreshold, k)
         IN  IF data # <<>>
             THEN IF \A i \in 1..Len(data) : RowLogOk(data[i])
                  THEN [docs |-> data, raised |-> FALSE]
                  ELSE RetrieveExcept
             ELSE [docs |-> <<>>, raised |-> FALSE]

(* query_stream without the early return. *)
NoContext_never(relevant_docs) == FALSE

(* The test "if not relevant_docs" of query_stream. *)
NoContext(relevant_docs) == relevant_docs = <<>>

Fallback == << "fallback" >>

SourcesHeader == << "sources" >>

(* Format spec .2f on a similarity held in thousandths: hundredths. *)
Format2f(sim) == (sim + 5) \div 10

(* The sources loop walking relevant_docs from the last match. *)
SourceLine_reversed(i, relevant_docs) ==
    LET doc      == relevant_docs[Len(relevant_docs) - i + 1]
        metadata == json_loads(doc.metadata)
    IN  << "source", i, metadata.source,
           IF "page" \in DOMAIN metadata THEN << metadata.page >> ELSE << "N/A" >>,
           Format2f(IF "similarity" \in DOMAIN doc THEN doc.similarity ELSE 0) >>

(* The i-th line of the sources section. *)
SourceLine(i, relevant_docs) ==
    LET doc      == relevant_docs[i]
        metadata == json_loads(doc.metadata)
    IN  << "source", i, metadata.source,
           IF "page" \in DOMAIN metadata THEN << metadata.page >> ELSE << "N/A" >>,
           Format2f(IF "similarity" \in DOMAIN doc THEN doc.similarity ELSE 0) >>

(* The server-sent-events framing of generate() in query_documents. *)
Frame(chunk) == << "data: ", chunk, "\n\n" >>

(* The delete of clear_database: delete().neq('id', 0). *)
DeleteNeqId(st) == { r \in st : ~(r.id # 0) }

(* SupabaseRAG.clear_database: what it hands back to its caller. *)
rag_clear_database(deleteOk) ==
    IF deleteOk THEN [ret |-> << TRUE >>, raised |-> FALSE]
    ELSE [ret |-> << FALSE >>, raised |-> FALSE]

(* The clear handler's answer, given what rag.clear_database did. *)
ClearStatus(r) == IF r.raised THEN 500 ELSE 200

(* ------------------------------- state -------------------------------- *)
VARIABLES
    store,          \* rows of the documents table
    nextId,         \* next id the store's sequence hands out
    ops,            \* handler invocations so far
    up_pc,          \* upload_document: "idle", "embed", "done"
    up_path,        \* file_path passed to load_and_process_document
    up_invoked,     \* load_and_process_document was called
    up_chunks,      \* chunks produced by the splitter
    up_data,        \* insert_data
    up_embeds,      \* texts passed to embed_query, in call order
    up_embedFailed, \* an embed_query call raised
    up_inserts,     \* batches passed to insert(), in call order
    up_insertFailed,\* the insert call raised
    up_ret,         \* <<n>> when load_and_process_document returned n
    up_exc,         \* exception that left load_and_process_document / the handler body
    up_status,      \* HTTP status of the upload response (0: none yet)
    up_before,      \* store when the handler started
    q_pc,           \* query_stream: "idle", "gen", "sources", "done", "error"
    q_question,     \* the question
    q_env,          \* which remote calls of the retrieval answer
    q_rows,         \* rows the search call answers with when it is made and answers
    q_docs,         \* relevant_docs
    q_gen,          \* generation calls made
    q_frags,        \* fragments the language model produced, in arrival order
    q_out,          \* fragments query_stream yielded, in order
    q_sse,          \* frames generate() yielded to the response, in order
    c_pc,           \* clear_database handler: "idle", "done"
    c_deleteOk,     \* the store's delete answered
    c_res,          \* what SupabaseRAG.clear_database handed back
    c_status,       \* HTTP status of the clear response (0: none yet)
    c_prev,         \* last store operation before this clear
    lastStoreOp     \* last store write: "none", "ingest", "clear", "clear_failed"

upvars == << up_pc, up_path, up_invoked, up_chunks, up_data, up_embeds,
             up_embedFailed, up_inserts, up_insertFailed, up_ret, up_exc,
             up_status, up_before >>

qvars == << q_pc, q_question, q_env, q_rows, q_docs, q_gen, q_frags, q_out, q_sse >>

cvars == << c_pc, c_deleteOk, c_res, c_status, c_prev >>

vars == << store, nextId, ops, lastStoreOp, upvars, qvars, cvars >>

(* A handler that does not await is running, or a finished handler has    *)
(* not yet handed over its response.                                      *)
Busy == up_pc # "idle" \/ c_pc # "idle" \/ q_pc \in {"done", "error"}

NoEnv == [embedOk |-> TRUE, countOk |-> TRUE, searchOk |-> TRUE]

QIdle ==
    /\ q_pc = "idle"
    /\ q_question = ""
    /\ q_env = NoEnv
    /\ q_rows = <<>>
    /\ q_docs = <<>>
    /\ q_gen = 0
    /\ q_frags = <<>>
    /\ q_out = <<>>
    /\ q_sse = <<>>

CIdle ==
    /\ c_pc = "idle"
    /\ c_deleteOk = TRUE
    /\ c_res = [ret |-> <<>>, raised |-> FALSE]
    /\ c_status = 0
    /\ c_prev = "none"

UpIdle ==
    /\ up_pc = "idle"
    /\ up_path = <<>>
    /\ up_invoked = FALSE
    /\ up_chunks = <<>>
    /\ up_data = <<>>
    /\ up_embeds = <<>>
    /\ up_embedFailed = FALSE
    /\ up_inserts = <<>>
    /\ up_insertFailed = FALSE
    /\ up_ret = <<>>
    /\ up_exc = "none"
    /\ up_status = 0
    /\ up_before = {}

Init ==
    /\ store = {}
    /\ nextId \in {0, 1}
    /\ ops = 0
    /\ lastStoreOp = "none"
    /\ UpIdle
    /\ QIdle
    /\ CIdle

(* ------------------------- upload_document ---------------------------- *)
(* The handler up to the first embedding call: save the file, pick the    *)
(* loader, load and split.                                                *)
UploadStart(filename, saveOk, loadOk, cs) ==
    LET file_path == <<"uploads/">> \o filename IN
    /\ ~Busy
    /\ ops < MaxOps
    /\ ops' = ops + 1
    /\ up_before' = store
    /\ up_path' = file_path
    /\ up_invoked' = saveOk
    /\ up_data' = <<>>
    /\ up_embeds' = <<>>
    /\ up_embedFailed' = FALSE
    /\ up_inserts' = <<>>
    /\ up_insertFailed' = FALSE
    /\ up_ret' = <<>>
    /\ IF ~saveOk
       THEN /\ up_exc' = "Exception"
            /\ up_chunks' = <<>>
       ELSE IF LoaderFor(file_path) = "ValueError"
       THEN /\ up_exc' = "ValueError"
            /\ up_chunks' = <<>>
       ELSE IF ~loadOk
       THEN /\ up_exc' = "Exception"
            /\ up_chunks' = <<>>
       ELSE /\ up_exc' = "none"
            /\ up_chunks' = cs
    /\ up_pc' = IF up_exc' = "none" THEN "embed" ELSE "done"
    /\ up_status' = IF up_exc' = "none" THEN 0 ELSE UploadStatus(up_exc')
    /\ UNCHANGED << store, nextId, lastStoreOp, qvars, cvars >>

(* One iteration of the loop of _store_chunks. *)
EmbedChunk(ok) ==
    LET i == Len(up_data) IN
    /\ up_pc = "embed"
    /\ i < Len(up_chunks)
    /\ up_embeds' = Append(up_embeds, up_chunks[i + 1].page_content)
    /\ IF ok
       THEN /\ up_data' = Append(up_data,
                  PrepareRecord(up_chunks[i + 1], i, up_path,
                                embed_query(up_chunks[i + 1].page_content)))
            /\ UNCHANGED << up_pc, up_embedFailed, up_exc, up_status >>
       ELSE /\ up_embedFailed' = TRUE
            /\ up_exc' = "Exception"
            /\ up_status' = UploadStatus("Exception")
            /\ up_pc' = "done"
            /\ UNCHANGED up_data
    /\ UNCHANGED << store, nextId, ops, lastStoreOp, up_path, up_invoked, up_chunks,
                    up_inserts, up_insertFailed, up_ret, up_before, qvars, cvars >>

(* The batch insert after the loop, and the return to the handler. *)
InsertBatch(ok) ==
    /\ up_pc = "embed"
    /\ Len(up_data) = Len(up_chunks)
    /\ up_inserts' = Append(up_inserts, up_data)
    /\ up_insertFailed' = ~ok
    /\ IF ok
       THEN /\ store' = StoreInsert(store, up_data, nextId)
            /\ nextId' = nextId + Len(up_data)
            /\ lastStoreOp' = "ingest"
       ELSE UNCHANGED << store, nextId, lastStoreOp >>
    /\ IF InsertOutcome(ok) = "raise"
       THEN /\ up_exc' = "Exception"
            /\ up_ret' = <<>>
       ELSE /\ up_exc' = "none"
            /\ up_ret' = << Len(up_chunks) >>
    /\ up_status' = UploadStatus(up_exc')
    /\ up_pc' = "done"
    /\ UNCHANGED << ops, up_path, up_invoked, up_chunks, up_data, up_embeds,
                    up_embedFailed, up_before, qvars, cvars >>

(* The response is sent and the handler's locals are released. *)
UploadClose ==
    /\ up_pc = "done"
    /\ up_pc' = "idle"
    /\ up_path' = <<>>
    /\ up_invoked' = FALSE
    /\ up_chunks' = <<>>
    /\ up_data' = <<>>
    /\ up_embeds' = <<>>
    /\ up_embedFailed' = FALSE
    /\ up_inserts' = <<>>
    /\ up_insertFailed' = FALSE
    /\ up_ret' = <<>>
    /\ up_exc' = "none"
    /\ up_status' = 0
    /\ up_before' = {}
    /\ UNCHANGED << store, nextId, ops, lastStoreOp, qvars, cvars >>

(* ---------------------------- query_stream ---------------------------- *)
(* The generator up to its first suspension: retrieval, then either the   *)
(* fallback message and the end of the stream, or the start of the        *)
(* generation call.                                                       *)
QueryStart(question, embedOk, countOk, searchOk) ==
    LET env == [embedOk |-> embedOk, countOk |-> countOk, searchOk |-> searchOk]
        got == retrieve_relevant_chunks(question, StreamK, env, store)
    IN
    /\ ~Busy
    /\ q_pc = "idle"
    /\ ops < MaxOps
    /\ ops' = ops + 1
    /\ q_question' = question
    /\ q_env' = env
    /\ q_rows' = match_documents(store, embed_query(question), MatchThreshold, StreamK)
    /\ q_docs' = got.docs
    /\ q_frags' = <<>>
    /\ IF got.raised
       THEN /\ q_pc' = "error"
            /\ q_gen' = 0
            /\ q_out' = <<>>
            /\ q_sse' = <<>>
       ELSE IF NoContext(got.docs)
       THEN /\ q_pc' = "done"
            /\ q_gen' = 0
            /\ q_out' = << Fallback >>
            /\ q_sse' = << Frame(Fallback) >>
       ELSE /\ q_pc' = "gen"
            /\ q_gen' = 1
            /\ q_out' = <<>>
            /\ q_sse' = <<>>
    /\ UNCHANGED << store, nextId, lastStoreOp, upvars, cvars >>

(* The language model hands over its next fragment, which is yielded. *)
GenFragment ==
    LET chunk == << "token", Len(q_frags) + 1 >> IN
    /\ q_pc = "gen"
    /\ up_pc = "idle" /\ c_pc = "idle"
    /\ Len(q_frags) < MaxFrags
    /\ q_frags' = Append(q_frags, chunk)
    /\ q_out' = Append(q_out, chunk)
    /\ q_sse' = Append(q_sse, Frame(chunk))
    /\ UNCHANGED << store, nextId, ops, lastStoreOp, upvars, cvars,
                    q_pc, q_question, q_env, q_rows, q_docs, q_gen >>

(* The generation stream raises. *)
GenFail ==
    /\ q_pc = "gen"
    /\ up_pc = "idle" /\ c_pc = "idle"
    /\ q_pc' = "error"
    /\ UNCHANGED << store, nextId, ops, lastStoreOp, upvars, cvars,
                    q_question, q_env, q_rows, q_docs, q_gen, q_frags, q_out, q_sse >>

(* The generation stream ends; the header of the sources section is       *)
(* yielded.                                                               *)
GenEnd ==
    /\ q_pc = "gen"
    /\ up_pc = "idle" /\ c_pc = "idle"
    /\ q_pc' = "sources"
    /\ q_out' = Append(q_out, SourcesHeader)
    /\ q_sse' = Append(q_sse, Frame(SourcesHeader))
    /\ UNCHANGED << store, nextId, ops, lastStoreOp, upvars, cvars,
                    q_question, q_env, q_rows, q_docs, q_gen, q_frags >>

(* Number of source lines yielded so far. *)
SourcesEmitted == Len(q_out) - Len(q_frags) - 1

(* One iteration of the loop over relevant_docs. *)
EmitSource ==
    LET i == SourcesEmitted + 1 IN
    /\ q_pc = "sources"
    /\ up_pc = "idle" /\ c_pc = "idle"
    /\ i <= Len(q_docs)
    /\ q_out' = Append(q_out, SourceLine(i, q_docs))
    /\ q_sse' = Append(q_sse, Frame(SourceLine(i, q_docs)))
    /\ q_pc' = IF i = Len(q_docs) THEN "done" ELSE "sources"
    /\ UNCHANGED << store, nextId, ops, lastStoreOp, upvars, cvars,
                    q_question, q_env, q_rows, q_docs, q_gen, q_frags >>

(* The response is closed and the generator's locals are released. *)
QueryClose ==
    /\ q_pc \in {"done", "error"}
    /\ q_pc' = "idle"
    /\ q_question' = ""
    /\ q_env' = NoEnv
    /\ q_rows' = <<>>
    /\ q_docs' = <<>>
    /\ q_gen' = 0
    /\ q_frags' = <<>>
    /\ q_out' = <<>>
    /\ q_sse' = <<>>
    /\ UNCHANGED << store, nextId, ops, lastStoreOp, upvars, cvars >>

(* --------------------------- clear_database --------------------------- *)
ClearStart(deleteOk) ==
    /\ ~Busy
    /\ ops < MaxOps
    /\ ops' = ops + 1
    /\ c_prev' = lastStoreOp
    /\ c_deleteOk' = deleteOk
    /\ store' = IF deleteOk THEN DeleteNeqId(store) ELSE store
    /\ lastStoreOp' = IF deleteOk THEN "clear" ELSE "clear_failed"
    /\ c_res' = rag_clear_database(deleteOk)
    /\ c_status' = ClearStatus(c_res')
    /\ c_pc' = "done"
    /\ UNCHANGED << nextId, upvars, qvars >>

ClearClose ==
    /\ c_pc = "done"
    /\ c_pc' = "idle"
    /\ c_deleteOk' = TRUE
    /\ c_res' = [ret |-> <<>>, raised |-> FALSE]
    /\ c_status' = 0
    /\ c_prev' = "none"
    /\ UNCHANGED << store, nextId, ops, lastStoreOp, upvars, qvars >>

Next ==
    \/ \E fn \in Filenames, saveOk \in BOOLEAN, loadOk \in BOOLEAN :
         \E cs \in ChunkSeqs(fn) : UploadStart(fn, saveOk, loadOk, cs)
    \/ \E ok \in BOOLEAN : EmbedChunk(ok)
    \/ \E ok \in BOOLEAN : InsertBatch(ok)
    \/ UploadClose
    \/ \E q \in Questions, embedOk \in BOOLEAN, countOk \in BOOLEAN, searchOk \in BOOLEAN :
         QueryStart(q, embedOk, countOk, searchOk)
    \/ GenFragment
    \/ GenFail
    \/ GenEnd
    \/ EmitSource
    \/ QueryClose
    \/ \E ok \in BOOLEAN : ClearStart(ok)
    \/ ClearClose

Spec == Init /\ [][Next]_vars

(* ============================== claims ================================ *)

QueryRan == q_pc # "idle"

(* C1: when retrieval returns no match, query_stream yields the fallback  *)
(* message and nothing else, ends, and makes no generation call.          *)
C1_EmptyRetrievalFallback ==
    (QueryRan /\ q_docs = <<>>) =>
        /\ q_pc = "done"
        /\ q_out = << Fallback >>
        /\ q_sse = << Frame(Fallback) >>
        /\ q_gen = 0
        /\ q_frags = <<>>

C1_Witness ==
    /\ q_pc = "done"
    /\ store = {}
    /\ q_env = NoEnv
    /\ q_docs = <<>>
    /\ q_out = << Fallback >>

(* C2: with a non-empty retrieval the generation fragments are forwarded  *)
(* in arrival order; nothing of the sources section is yielded while the  *)
(* generation runs or after it failed; once it has completed the header   *)
(* follows, then one line per retrieved match in retrieval order with the *)
(* match's source path, page and similarity; the handler frames every     *)
(* yielded fragment in the same order.                                    *)
C2_SourcesAfterGeneration ==
    (QueryRan /\ q_docs # <<>>) =>
        LET g == Len(q_frags) IN
        /\ Len(q_out) >= g
        /\ SubSeq(q_out, 1, g) = q_frags
        /\ \A j \in 1..g : q_frags[j] = << "token", j >>
        /\ q_pc \in {"gen", "error"} => Len(q_out) = g
        /\ q_pc \in {"sources", "done"} =>
              /\ Len(q_out) >= g + 1
              /\ Len(q_out) <= g + 1 + Len(q_docs)
              /\ q_out[g + 1] = SourcesHeader
              /\ \A n \in 1..(Len(q_out) - g - 1) :
                    /\ q_out[g + 1 + n][1] = "source"
                    /\ q_out[g + 1 + n][2] = n
                    /\ q_out[g + 1 + n][3] = q_docs[n].metadata[2]
                    /\ q_out[g + 1 + n][4] = << q_docs[n].metadata[4] >>
                    /\ q_out[g + 1 + n][5] = Format2f(q_docs[n].similarity)
        /\ q_pc = "done" => Len(q_out) = g + 1 + Len(q_docs)
        /\ Len(q_sse) = Len(q_out)
        /\ \A j \in 1..Len(q_out) : q_sse[j] = Frame(q_out[j])

C2_Witness ==
    /\ q_pc = "done"
    /\ Len(q_docs) = StreamK
    /\ Len(q_frags) >= 2
    /\ q_docs[1].metadata # q_docs[StreamK].metadata
    /\ Len(q_out) = Len(q_frags) + 1 + StreamK

(* C3: when the store's delete fails, the clear operation raises to its   *)
(* caller and the clear handler does not answer success.                  *)
C3_ClearFailurePropagates ==
    (c_pc = "done" /\ ~c_deleteOk) =>
        /\ c_res.raised
        /\ c_status # 200

(* C4: an embed_query failure is propagated to the caller of the          *)
(* operation that made the call, for a chunk during ingestion and for the *)
(* question during a query.                                               *)
C4_EmbeddingFailurePropagates ==
    /\ up_embedFailed =>
          /\ up_exc # "none"
          /\ up_ret = <<>>
          /\ up_status # 200
    /\ (QueryRan /\ ~q_env.embedOk) =>
          /\ q_pc = "error"
          /\ q_out = <<>>

(* C5: when a store call of the retrieval raises, the retrieval yields no *)
(* match, the fallback message is streamed and the stream ends without an *)
(* error.                                                                 *)
C5_FailSoftRead ==
    (QueryRan /\ q_env.embedOk /\ (~q_env.countOk \/ ~q_env.searchOk)) =>
        /\ q_docs = <<>>
        /\ q_pc = "done"
        /\ q_out = << Fallback >>
        /\ q_gen = 0

C5_Witness ==
    /\ q_pc = "done"
    /\ q_env = [embedOk |-> TRUE, countOk |-> TRUE, searchOk |-> FALSE]
    /\ q_rows # <<>>
    /\ q_docs = <<>>
    /\ q_out = << Fallback >>

(* C6: a clear whose delete the store carried out, after an ingestion or  *)
(* after another clear, leaves no record in the store and is answered     *)
(* with success.                                                          *)
C6_ClearLeavesStoreEmpty ==
    (c_pc = "done" /\ c_deleteOk /\ c_prev \in {"ingest", "clear"}) =>
        /\ Cardinality(store) = 0
        /\ ~c_res.raised
        /\ c_status = 200

(* C7: when the batch insert raises, load_and_process_document raises to  *)
(* its caller, returns no chunk count, and the upload is not answered     *)
(* with success.                                                          *)
C7_FailHardWrite ==
    up_insertFailed =>
        /\ up_pc = "done"
        /\ up_exc # "none"
        /\ up_ret = <<>>
        /\ up_status # 200
        /\ store = up_before

C7_Witness ==
    /\ up_insertFailed
    /\ Len(up_inserts) = 1
    /\ Len(up_inserts[1]) >= 1
    /\ up_status = 500

(* C8: for a path ending neither in .txt nor in .pdf the ingestion raises *)
(* the unsupported-type error, answered with status 400, before any       *)
(* embedding call or insert call, and the store is unchanged.             *)
C8_UnsupportedTypeRejected ==
    (up_invoked /\ ~EndsWith(up_path, TxtExt) /\ ~EndsWith(up_path, PdfExt)) =>
        /\ up_pc = "done"
        /\ up_exc = "ValueError"
        /\ up_status = 400
        /\ up_ret = <<>>
        /\ up_embeds = <<>>
        /\ up_inserts = <<>>
        /\ store = up_before

C8_Witness ==
    /\ up_invoked
    /\ up_path = << "uploads/", "d", ".", "P", "D", "F" >>
    /\ up_status = 400
    /\ store # {}
    /\ store = up_before

(* C9: the embedding calls of an ingestion are made in chunk order; at    *)
(* most one insert call is made, only after every chunk was embedded; its *)
(* batch has one record per chunk, in chunk order, with chunk_index       *)
(* 0..n-1; the returned count is n; after a failed embedding no insert    *)
(* call is made and the store is unchanged.                               *)
C9_SequentialEmbedThenOneInsert ==
    up_pc # "idle" =>
        LET n == Len(up_chunks) IN
        /\ Len(up_embeds) <= n
        /\ \A j \in 1..Len(up_embeds) : up_embeds[j] = up_chunks[j].page_content
        /\ Len(up_inserts) <= 1
        /\ up_inserts # <<>> =>
              /\ ~up_embedFailed
              /\ Len(up_embeds) = n
              /\ Len(up_inserts[1]) = n
              /\ \A j \in 1..n :
                    /\ up_inserts[1][j].content = up_chunks[j].page_content
                    /\ up_inserts[1][j].metadata[3] = j - 1
                    /\ up_inserts[1][j].embedding = embed_query(up_chunks[j].page_content)
        /\ up_ret # <<>> =>
              /\ up_ret = << n >>
              /\ Len(up_inserts) = 1
              /\ ~up_insertFailed
        /\ up_embedFailed =>
              /\ up_inserts = <<>>
              /\ up_ret = <<>>
              /\ store = up_before

C9_Witness ==
    /\ up_pc = "done"
    /\ Len(up_chunks) = 2
    /\ up_embeds = << "t2", "t1" >>
    /\ Len(up_inserts) = 1
    /\ up_ret = << 2 >>
    /\ Cardinality(store) = Cardinality(up_before) + 2

(* C10: when the embedding call answers and the search answers,           *)
(* retrieve_relevant_chunks returns exactly the rows of the search, at    *)
(* most k of them, whatever the record-count query does.                  *)
C10_RetrieveReturnsSearchRows ==
    (QueryRan /\ q_env.embedOk /\ q_env.searchOk) =>
        /\ q_docs = q_rows
        /\ Len(q_docs) <= StreamK

====
